---- MODULE Spec2Model ----
(***************************************************************************)
(* Model of packages/scm/src/browser/scm-service.ts: the ScmService        *)
(* registry, the ScmRepositoryImpl wrappers it hands out and the           *)
(* ScmInputImpl input model.                                               *)
(*                                                                         *)
(* Objects are modelled by identity: a wrapper is its allocation number    *)
(* (an index into `wrappers`), a provider is an element of Providers, an   *)
(* array is a reference into the `arrays` heap.  Every public call is one  *)
(* action; the notifications it delivers, and what the listeners do while  *)
(* they are delivered, are part of that action.                            *)
(***************************************************************************)
EXTENDS Integers, Sequences, FiniteSets, TLC

\* ------------------------------------------------------------------ bounds
MaxWrappers == 3
MaxInputCalls == 3

\* ------------------------------------------------------------- the objects
\* Provider objects handed to the registry and the string id of each.  Two
\* distinct provider objects carry the same id.
Providers == {"pA1", "pA2", "pB"}

ProviderId(provider) ==
    CASE provider = "pA1" -> "a"
      [] provider = "pA2" -> "a"
      [] provider = "pB" -> "b"

\* `undefined`; wrappers are numbered from 1.
Undefined == 0

\* The two arrays of the model: the registry's private _repositories array
\* and the array a caller got from the `repositories` accessor.
RegistryArray == 1
CallerArray == 2
ArrayRefs == {RegistryArray, CallerArray}

\* Notification channels of the registry.
OnDidAddProvider == "onDidAddProvider"
OnDidRemoveProvider == "onDidRemoveProvider"
OnDidChangeSelectedRepositories == "onDidChangeSelectedRepositories"
\* A call of provider.dispose(), recorded like a notification.
ProviderDispose == "provider.dispose"
\* The notification channel of a wrapper's own `selected` flag.
OnDidChangeSelection == "onDidChangeSelection"

\* What a listener does while a notification is delivered to it.
AddListeners == {"none", "disposeNew", "disposeOldest"}
RemoveListeners == {"none", "disposeSame"}

VARIABLES
    providerIds,            \* ScmService.providerIds
    arrays,                 \* heap of arrays; arrays[RegistryArray] is _repositories
    _selectedRepository,    \* ScmService._selectedRepository
    wrappers,               \* every ScmRepositoryImpl created so far, by identity
    disposedEmitters,       \* the emitters of the registry that were disposed
    held,                   \* the array reference a caller holds (or Undefined)
    call,                   \* the last public call and its arguments
    result,                 \* what the last call returned, or that it threw
    fired,                  \* what the last call sent out, in order: the notifications
                            \* delivered and the calls of a provider's dispose()
    _value, _placeholder, _visible, _validateInput,   \* one ScmInputImpl
    inputCalls,             \* every assignment made on that input, in order
    inputFired              \* every notification that input delivered, in order

registryVars == <<providerIds, arrays, _selectedRepository, wrappers,
                  disposedEmitters, held>>
inputVars == <<_value, _placeholder, _visible, _validateInput, inputCalls, inputFired>>
vars == <<providerIds, arrays, _selectedRepository, wrappers, disposedEmitters,
          held, call, result, fired,
          _value, _placeholder, _visible, _validateInput, inputCalls, inputFired>>

_repositories == arrays[RegistryArray]

\* ------------------------------------------------------- array primitives
\* Array.prototype.indexOf: 0-based index of the first occurrence, or -1.
indexOf(array, x) ==
    IF \E i \in 1..Len(array) : array[i] = x
    THEN (CHOOSE i \in 1..Len(array) :
              array[i] = x /\ \A j \in 1..(i - 1) : array[j] # x) - 1
    ELSE -1

\* Variant: the first element is removed, whatever the index (a shift()).
splice_first(array, index) ==
    Tail(array)

\* array.splice(index, 1) with a 0-based index: the array without that element.
splice(array, index) ==
    SubSeq(array, 1, index) \o SubSeq(array, index + 2, Len(array))

Range(array) == {array[i] : i \in 1..Len(array)}

\* What a call gave back: a value it returned, or the error it threw.
Returned(value) == [threw |-> FALSE, value |-> value]
Threw == [threw |-> TRUE, value |-> Undefined]

\* ------------------------------------------------- the registry as a value
\* The registry's fields and the objects reachable from it, as one record, so
\* that the statements of a method compose as in the source.
State ==
    [providerIds |-> providerIds,
     repositories |-> _repositories,
     selectedRepository |-> _selectedRepository,
     wrappers |-> wrappers,
     disposedEmitters |-> disposedEmitters,
     result |-> Returned(Undefined),
     fired |-> <<>>]

\* Notifications on `channel` among those a call sent out.
On(sent, channel) == SelectSeq(sent, LAMBDA n : n.channel = channel)

\* Emitter.fire(payload), and likewise a call out to a provider: it reaches
\* the listeners now, in the same call stack, and a listener sees the registry
\* as it is at this point.  A disposed emitter has no listeners left and
\* delivers nothing.
fire(s, channel, payload) ==
    IF channel \in s.disposedEmitters
    THEN s
    ELSE [s EXCEPT !.fired = Append(@,
            [channel |-> channel,
             payload |-> payload,
             repositories |-> s.repositories,
             providerIds |-> s.providerIds,
             selectedRepository |-> s.selectedRepository])]

\* Variant: assigning the current selection again is a no-op.
setSelectedRepository_ifChanged(s, repository) ==
    IF s.selectedRepository = repository
    THEN s
    ELSE fire([s EXCEPT !.selectedRepository = repository],
              OnDidChangeSelectedRepositories, repository)

\* Variant: the setter also marks the assigned wrapper as selected.
setSelectedRepository_marksWrapper(s, repository) ==
    LET marked == IF repository = Undefined
                  THEN s
                  ELSE [s EXCEPT !.wrappers[repository].selected = TRUE]
    IN  fire([marked EXCEPT !.selectedRepository = repository],
             OnDidChangeSelectedRepositories, repository)

\* set selectedRepository(repository)
setSelectedRepository(s, repository) ==
    fire([s EXCEPT !.selectedRepository = repository],
         OnDidChangeSelectedRepositories, repository)

RECURSIVE dispose(_, _, _)

\* The 'repository removed' listeners, run inside fire.
removeListener(s, repository, onRemove) ==
    IF onRemove = "disposeSame" /\ OnDidRemoveProvider \notin s.disposedEmitters
    THEN dispose(s, repository, onRemove)
    ELSE s

\* Variant: the provider id is freed before the wrapper is looked up, so also
\* when the wrapper is no longer in the sequence.
disposable_freesIdFirst(s, repository, onRemove) ==
    LET index == indexOf(s.repositories, repository)
        id == ProviderId(s.wrappers[repository].provider)
        freed == [s EXCEPT !.providerIds = @ \ {id}]
    IN  IF index < 0
        THEN freed
        ELSE removeListener(
                 fire([freed EXCEPT !.repositories = splice(@, index)],
                      OnDidRemoveProvider, repository),
                 repository, onRemove)

\* Variant: 'repository removed' is fired before the wrapper is looked up, so
\* also when it is no longer in the sequence.
disposable_firesWhenAbsent(s, repository, onRemove) ==
    LET index == indexOf(s.repositories, repository)
    IN  IF index < 0
        THEN fire(s, OnDidRemoveProvider, repository)
        ELSE LET id == ProviderId(s.wrappers[repository].provider)
                 removed == [s EXCEPT !.providerIds = @ \ {id},
                                      !.repositories = splice(@, index)]
             IN  removeListener(fire(removed, OnDidRemoveProvider, repository),
                                repository, onRemove)

\* Variant: removing the selected wrapper clears the selection.
disposable_clearsSelection(s, repository, onRemove) ==
    LET index == indexOf(s.repositories, repository)
    IN  IF index < 0
        THEN s
        ELSE LET id == ProviderId(s.wrappers[repository].provider)
                 removed == [s EXCEPT !.providerIds = @ \ {id},
                                      !.repositories = splice(@, index)]
                 notified == removeListener(
                                 fire(removed, OnDidRemoveProvider, repository),
                                 repository, onRemove)
             IN  IF notified.selectedRepository = repository
                 THEN setSelectedRepository(notified, Undefined)
                 ELSE notified

\* Variant: the provider id is not freed when the wrapper is removed.
disposable_keepsId(s, repository, onRemove) ==
    LET index == indexOf(s.repositories, repository)
    IN  IF index < 0
        THEN s
        ELSE removeListener(
                 fire([s EXCEPT !.repositories = splice(@, index)],
                      OnDidRemoveProvider, repository),
                 repository, onRemove)

\* Variant: the wrapper to remove is looked up by the id of its provider.
disposable_byProviderId(s, repository, onRemove) ==
    LET id == ProviderId(s.wrappers[repository].provider)
        same == {i \in 1..Len(s.repositories) :
                    ProviderId(s.wrappers[s.repositories[i]].provider) = id}
    IN  IF same = {}
        THEN s
        ELSE LET index == (CHOOSE i \in same : TRUE) - 1
                 removed == [s EXCEPT !.providerIds = @ \ {id},
                                      !.repositories = splice(@, index)]
             IN  removeListener(fire(removed, OnDidRemoveProvider, repository),
                                repository, onRemove)

\* The disposable created in registerScmProvider for `repository`.
disposable(s, repository, onRemove) ==
    LET index == indexOf(s.repositories, repository)
    IN  IF index < 0
        THEN s
        ELSE LET id == ProviderId(s.wrappers[repository].provider)
                 removed == [s EXCEPT !.providerIds = @ \ {id},
                                      !.repositories = splice(@, index)]
             IN  removeListener(fire(removed, OnDidRemoveProvider, repository),
                                repository, onRemove)

\* Variant: the provider is disposed before the registry bookkeeping.
dispose_providerFirst(s, repository, onRemove) ==
    disposable(fire(s, ProviderDispose, repository), repository, onRemove)

\* ScmRepositoryImpl.dispose
dispose(s, repository, onRemove) ==
    fire(disposable(s, repository, onRemove), ProviderDispose, repository)

\* The 'repository added' listeners, run inside fire.
addListener(s, repository, onAdd, onRemove) ==
    CASE OnDidAddProvider \in s.disposedEmitters -> s
      [] onAdd = "disposeNew" -> dispose(s, repository, onRemove)
      [] onAdd = "disposeOldest" -> dispose(s, s.repositories[1], onRemove)
      [] OTHER -> s

\* Variant: the duplicate test compares provider objects instead of their ids.
alreadyExists_byIdentity(s, provider) ==
    \E i \in 1..Len(s.repositories) :
        s.wrappers[s.repositories[i]].provider = provider

\* The duplicate test of registerScmProvider: this.providerIds.has(provider.id)
alreadyExists(s, provider) ==
    ProviderId(provider) \in s.providerIds

\* Variant: the new wrapper is selected when nothing is selected yet.
isFirstRepository_whenUnselected(s) ==
    s.selectedRepository = Undefined

\* Variant: the new wrapper is selected whenever the sequence is not empty.
isFirstRepository_nonEmpty(s) ==
    Len(s.repositories) >= 1

\* The test that guards the automatic selection: this._repositories.length === 1
isFirstRepository(s) ==
    Len(s.repositories) = 1

\* Variant: the automatic selection is made before 'repository added' is
\* fired.
registerScmProvider_selectsFirst(s, provider, onAdd, onRemove) ==
    IF alreadyExists(s, provider)
    THEN [s EXCEPT !.result = Threw]
    ELSE LET repository == Len(s.wrappers) + 1
             pushed == [s EXCEPT
                 !.providerIds = @ \cup {ProviderId(provider)},
                 !.wrappers = Append(@, [provider |-> provider, selected |-> FALSE]),
                 !.repositories = Append(@, repository)]
             selected == IF isFirstRepository(pushed)
                         THEN setSelectedRepository(pushed, repository)
                         ELSE pushed
             added == addListener(fire(selected, OnDidAddProvider, repository),
                                  repository, onAdd, onRemove)
         IN  [added EXCEPT !.result = Returned(repository)]

\* Variant: the provider id is reserved only after 'repository added' has
\* been delivered.
registerScmProvider_reservesIdLate(s, provider, onAdd, onRemove) ==
    IF alreadyExists(s, provider)
    THEN [s EXCEPT !.result = Threw]
    ELSE LET repository == Len(s.wrappers) + 1
             pushed == [s EXCEPT
                 !.wrappers = Append(@, [provider |-> provider, selected |-> FALSE]),
                 !.repositories = Append(@, repository)]
             added == addListener(fire(pushed, OnDidAddProvider, repository),
                                  repository, onAdd, onRemove)
             reserved == [added EXCEPT
                 !.providerIds = @ \cup {ProviderId(provider)}]
             selected == IF isFirstRepository(reserved)
                         THEN setSelectedRepository(reserved, repository)
                         ELSE reserved
         IN  [selected EXCEPT !.result = Returned(repository)]

\* ScmService.registerScmProvider
registerScmProvider(s, provider, onAdd, onRemove) ==
    IF alreadyExists(s, provider)
    THEN [s EXCEPT !.result = Threw]
    ELSE LET repository == Len(s.wrappers) + 1
             pushed == [s EXCEPT
                 !.providerIds = @ \cup {ProviderId(provider)},
                 !.wrappers = Append(@, [provider |-> provider, selected |-> FALSE]),
                 !.repositories = Append(@, repository)]
             added == addListener(fire(pushed, OnDidAddProvider, repository),
                                  repository, onAdd, onRemove)
             selected == IF isFirstRepository(added)
                         THEN setSelectedRepository(added, repository)
                         ELSE added
         IN  [selected EXCEPT !.result = Returned(repository)]

\* Variant: the constructor does not push onDidRemoveProviderEmitter.
disposableCollection_withoutRemove ==
    {OnDidChangeSelectedRepositories, OnDidAddProvider}

\* The emitters the constructor pushes to this.disposableCollection.
disposableCollection ==
    {OnDidChangeSelectedRepositories, OnDidAddProvider, OnDidRemoveProvider}

\* ScmService.dispose: DisposableCollection.dispose() disposes what was pushed.
serviceDispose(s) ==
    [s EXCEPT !.disposedEmitters = @ \cup disposableCollection]

\* ScmRepositoryImpl.setSelected(selected)
setSelected(s, repository, selected) ==
    LET stored == [s EXCEPT !.wrappers[repository].selected = selected]
    IN  [stored EXCEPT !.fired = Append(@,
            [channel |-> OnDidChangeSelection,
             emitter |-> repository,
             selected |-> selected])]

\* Variant: the accessor hands out the registry's own array.
repositories_live(heap) ==
    [ref |-> RegistryArray, heap |-> heap]

\* get repositories(): a fresh array with the elements of _repositories.
repositories(heap) ==
    [ref |-> CallerArray, heap |-> [heap EXCEPT ![CallerArray] = heap[RegistryArray]]]

\* --------------------------------------------------------- the input model
\* Values the callers assign.  A validator is a function object, modelled by
\* its identity; "default" is the one the constructor installs.
Strings == {"", "x", "y"}
Placeholders == {"", "p"}
Validators == {"validatorA", "validatorB"}

\* The ScmInputImpl as a value; `fired` holds, per emitter, the payloads it
\* delivered so far.
Input ==
    [value |-> _value,
     placeholder |-> _placeholder,
     visible |-> _visible,
     validateInput |-> _validateInput,
     fired |-> inputFired]

\* Emitter.fire(payload) on one of the input's emitters.
fireInput(i, emitter, payload) ==
    [i EXCEPT !.fired[emitter] = Append(@, payload)]

\* Variant: the value setter has no equality test.
setValue_always(i, value) ==
    fireInput([i EXCEPT !.value = value], "onDidChange", value)

\* set value(value)
setValue(i, value) ==
    IF i.value = value
    THEN i
    ELSE fireInput([i EXCEPT !.value = value], "onDidChange", value)

\* Variant: the placeholder setter returns early on an equal value.
setPlaceholder_ifChanged(i, placeholder) ==
    IF i.placeholder = placeholder
    THEN i
    ELSE fireInput([i EXCEPT !.placeholder = placeholder],
                   "onDidChangePlaceholder", placeholder)

\* set placeholder(placeholder)
setPlaceholder(i, placeholder) ==
    fireInput([i EXCEPT !.placeholder = placeholder],
              "onDidChangePlaceholder", placeholder)

\* set visible(visible)
setVisible(i, visible) ==
    fireInput([i EXCEPT !.visible = visible], "onDidChangeVisibility", visible)

\* set validateInput(validateInput)
setValidateInput(i, validateInput) ==
    fireInput([i EXCEPT !.validateInput = validateInput],
              "onDidChangeValidateInput", Undefined)

\* ------------------------------------------------------------ the actions
\* Writes a registry value back to the registry's variables.
Store(s) ==
    /\ providerIds' = s.providerIds
    /\ arrays' = [arrays EXCEPT ![RegistryArray] = s.repositories]
    /\ _selectedRepository' = s.selectedRepository
    /\ wrappers' = s.wrappers
    /\ disposedEmitters' = s.disposedEmitters
    /\ result' = s.result
    /\ fired' = s.fired

WithinBounds(s) ==
    Len(s.wrappers) <= MaxWrappers

Init ==
    /\ providerIds = {}
    /\ arrays = [ref \in ArrayRefs |-> <<>>]
    /\ _selectedRepository = Undefined
    /\ wrappers = <<>>
    /\ disposedEmitters = {}
    /\ held = Undefined
    /\ call = [op |-> "new"]
    /\ result = Returned(Undefined)
    /\ fired = <<>>
    /\ _value = ""
    /\ _placeholder = ""
    /\ _visible = TRUE
    /\ _validateInput = "default"
    /\ inputCalls = <<>>
    /\ inputFired = [onDidChange |-> <<>>,
                     onDidChangePlaceholder |-> <<>>,
                     onDidChangeVisibility |-> <<>>,
                     onDidChangeValidateInput |-> <<>>]

\* registerScmProvider called while listeners of the kinds `adds` and
\* `removes` are subscribed.
RegisterWith(adds, removes) ==
    \E provider \in Providers, onAdd \in adds, onRemove \in removes :
        LET s == registerScmProvider(State, provider, onAdd, onRemove)
        IN  /\ WithinBounds(s)
            /\ Store(s)
            /\ call' = [op |-> "registerScmProvider", provider |-> provider,
                        onAdd |-> onAdd, onRemove |-> onRemove]
            /\ UNCHANGED <<held, inputVars>>

Register == RegisterWith(AddListeners, RemoveListeners)

\* No listener changes the registry while it is notified.
RegisterDirect == RegisterWith({"none"}, {"none"})

\* dispose() of a wrapper while listeners of the kinds `removes` are subscribed.
DisposeWith(removes) ==
    \E repository \in 1..Len(wrappers), onRemove \in removes :
        LET s == dispose(State, repository, onRemove)
        IN  /\ WithinBounds(s)
            /\ Store(s)
            /\ call' = [op |-> "dispose", repository |-> repository,
                        onRemove |-> onRemove]
            /\ UNCHANGED <<held, inputVars>>

Dispose == DisposeWith(RemoveListeners)

DisposeDirect == DisposeWith({"none"})

SetSelectedRepository ==
    \E repository \in {Undefined} \cup (1..Len(wrappers)) :
        /\ Store(setSelectedRepository(State, repository))
        /\ call' = [op |-> "set selectedRepository", repository |-> repository]
        /\ UNCHANGED <<held, inputVars>>

ServiceDispose ==
    /\ Store(serviceDispose(State))
    /\ call' = [op |-> "ScmService.dispose"]
    /\ UNCHANGED <<held, inputVars>>

SetSelected ==
    \E repository \in 1..Len(wrappers), selected \in BOOLEAN :
        /\ Store(setSelected(State, repository, selected))
        /\ call' = [op |-> "setSelected", repository |-> repository,
                    selected |-> selected]
        /\ UNCHANGED <<held, inputVars>>

GetRepositories ==
    LET got == repositories(arrays)
    IN  /\ arrays' = got.heap
        /\ held' = got.ref
        /\ result' = Returned(got.ref)
        /\ fired' = <<>>
        /\ call' = [op |-> "get repositories"]
        /\ UNCHANGED <<providerIds, _selectedRepository, wrappers,
                       disposedEmitters, inputVars>>

\* The caller changes the array it holds in place: pop() or reverse().
ModifyArray ==
    /\ held # Undefined
    /\ Len(arrays[held]) > 0
    /\ \E how \in {"pop", "reverse"} :
        /\ arrays' = [arrays EXCEPT ![held] =
                IF how = "pop"
                THEN SubSeq(@, 1, Len(@) - 1)
                ELSE [i \in 1..Len(@) |-> @[Len(@) + 1 - i]]]
        /\ call' = [op |-> "modify array", how |-> how]
    /\ result' = Returned(Undefined)
    /\ fired' = <<>>
    /\ UNCHANGED <<providerIds, _selectedRepository, wrappers,
                   disposedEmitters, held, inputVars>>

\* Writes an input value back to the input's variables and records the call.
StoreInput(i, field, assigned) ==
    /\ Len(inputCalls) < MaxInputCalls
    /\ _value' = i.value
    /\ _placeholder' = i.placeholder
    /\ _visible' = i.visible
    /\ _validateInput' = i.validateInput
    /\ inputFired' = i.fired
    /\ inputCalls' = Append(inputCalls, [field |-> field, assigned |-> assigned])
    /\ call' = [op |-> "set " \o field]
    /\ result' = Returned(Undefined)
    /\ fired' = <<>>
    /\ UNCHANGED registryVars

SetValue ==
    \E value \in Strings : StoreInput(setValue(Input, value), "value", value)

SetPlaceholder ==
    \E placeholder \in Placeholders :
        StoreInput(setPlaceholder(Input, placeholder), "placeholder", placeholder)

SetVisible ==
    \E visible \in BOOLEAN :
        StoreInput(setVisible(Input, visible), "visible", visible)

SetValidateInput ==
    \E validateInput \in Validators :
        StoreInput(setValidateInput(Input, validateInput), "validateInput",
                   validateInput)

Next ==
    \/ Register
    \/ Dispose
    \/ SetSelectedRepository

Spec == Init /\ [][Next]_vars

\* The registry together with a caller that keeps, and changes, the array
\* the `repositories` accessor gave it.
NextArrays ==
    \/ Register
    \/ Dispose
    \/ GetRepositories
    \/ ModifyArray

SpecArrays == Init /\ [][NextArrays]_vars

\* The registry and its own teardown.
NextTeardown ==
    \/ Register
    \/ Dispose
    \/ SetSelectedRepository
    \/ ServiceDispose

SpecTeardown == Init /\ [][NextTeardown]_vars

\* The registry and the wrappers' own `selected` flags; the listeners only
\* observe.
NextSelected ==
    \/ RegisterDirect
    \/ DisposeDirect
    \/ SetSelectedRepository
    \/ SetSelected

SpecSelected == Init /\ [][NextSelected]_vars

\* Registrations and wrapper disposals only: no caller assigns
\* selectedRepository.
NextRegistry ==
    \/ Dispose
    \/ Register

SpecRegistry == Init /\ [][NextRegistry]_vars

\* One input model and the assignments made on it.
NextInput ==
    \/ SetValue
    \/ SetPlaceholder
    \/ SetVisible
    \/ SetValidateInput

SpecInput == Init /\ [][NextInput]_vars

\* ======================================================== the properties
\* The ids of the providers of the wrappers in the repositories sequence.
LiveIds == {ProviderId(wrappers[w].provider) : w \in Range(_repositories)}

RegistryChannels ==
    {OnDidAddProvider, OnDidRemoveProvider, OnDidChangeSelectedRepositories}

\* The notifications of the registry among those a call sent out.
RegistryNotifications(sent) ==
    SelectSeq(sent, LAMBDA n : n.channel \in RegistryChannels)

\* C1: registerScmProvider with a provider whose id is the id of a wrapper in
\* the registry throws and changes nothing: the sequence, the used ids and the
\* selection stay as they were, no wrapper is created and no notification is
\* emitted.
C1_DuplicateRegistrationThrows ==
    [][(call'.op = "registerScmProvider" /\ ProviderId(call'.provider) \in LiveIds)
        => /\ result' = Threw
           /\ _repositories' = _repositories
           /\ providerIds' = providerIds
           /\ _selectedRepository' = _selectedRepository
           /\ wrappers' = wrappers
           /\ fired' = <<>>]_vars

\* A registration has just been refused although the provider object handed in
\* is not the one registered under that id.
C1_Witness ==
    /\ call.op = "registerScmProvider"
    /\ result = Threw
    /\ ProviderId(call.provider) \in LiveIds
    /\ \A w \in Range(_repositories) : wrappers[w].provider # call.provider

\* C2: in every reachable state no two wrappers of the repositories sequence
\* have providers with the same id.
C2_UniqueProviderIds ==
    \A i, j \in 1..Len(_repositories) :
        i # j => ProviderId(wrappers[_repositories[i]].provider)
                    # ProviderId(wrappers[_repositories[j]].provider)

\* Two wrappers are registered and a third registration has just been refused.
C2_Witness ==
    /\ Len(_repositories) = 2
    /\ call.op = "registerScmProvider"
    /\ result = Threw

\* C3 as stated: in every state reachable by registrations and wrapper
\* disposals selectedRepository is absent or a member of the repositories
\* sequence.
C3_SelectedIsMember ==
    \/ _selectedRepository = Undefined
    \/ _selectedRepository \in Range(_repositories)

\* dispose() of wrapper w ran during the call that sent out `sent`.
DisposedDuring(sent, w) ==
    \E i \in 1..Len(sent) :
        sent[i].channel = ProviderDispose /\ sent[i].payload = w

\* C3 as amended: under registrations and wrapper disposals selectedRepository
\* is absent or a wrapper this registry created, and it is a member of the
\* repositories sequence unless dispose() has been called on that wrapper: a
\* step leaves a non-member selected only if the selection was already a
\* non-member and is kept, or if that wrapper was disposed during the step.
C3_SelectedIsMemberUnlessDisposed ==
    /\ [](_selectedRepository \in {Undefined} \cup (1..Len(wrappers)))
    /\ [][(/\ _selectedRepository' # Undefined
            /\ _selectedRepository' \notin Range(_repositories'))
           => \/ /\ _selectedRepository' = _selectedRepository
                 /\ _selectedRepository \notin Range(_repositories)
              \/ DisposedDuring(fired', _selectedRepository')]_vars

\* The selected wrapper has just been disposed and stays selected although it
\* left the sequence, while another wrapper is registered.
C3_Witness ==
    /\ call.op = "dispose"
    /\ call.repository = _selectedRepository
    /\ On(fired, OnDidRemoveProvider) # <<>>
    /\ _selectedRepository \notin Range(_repositories)
    /\ Len(_repositories) = 1

C5_DisposeOnceThenNoOp ==
    [][/\ call'.op = "dispose"
           => LET w == call'.repository
                  removals == On(fired', OnDidRemoveProvider)
              IN  /\ ~result'.threw
                  /\ IF w \in Range(_repositories)
                     THEN /\ _repositories' =
                                SelectSeq(_repositories, LAMBDA x : x # w)
                          /\ Len(removals) = 1
                          /\ removals[1].payload = w
                     ELSE /\ RegistryNotifications(fired') = <<>>
                          /\ _repositories' = _repositories
                          /\ providerIds' = providerIds
                          /\ _selectedRepository' = _selectedRepository
       /\ \A w \in 1..Len(wrappers) :
              w \notin Range(_repositories) => w \notin Range(_repositories')]_vars

\* A wrapper has just been disposed again: it was not in the sequence any
\* more, nothing was removed, and another wrapper is still registered.
C5_Witness ==
    /\ call.op = "dispose"
    /\ call.onRemove = "none"
    /\ On(fired, OnDidRemoveProvider) = <<>>
    /\ Len(_repositories) >= 1

\* C6: disposing the wrapper that is the selected repository leaves
\* selectedRepository as it was, the disposed wrapper, and emits no 'selected
\* repository changed' notification.
C6_DisposeKeepsSelection ==
    [][(call'.op = "dispose" /\ call'.repository = _selectedRepository)
        => /\ _selectedRepository' = call'.repository
           /\ On(fired', OnDidChangeSelectedRepositories) = <<>>]_vars

\* The selected wrapper has just been removed by its dispose() while a second
\* wrapper is registered, and it is still the selection.
C6_Witness ==
    /\ call.op = "dispose"
    /\ On(fired, OnDidRemoveProvider) # <<>>
    /\ fired[1].selectedRepository = call.repository
    /\ _selectedRepository = call.repository
    /\ _repositories # <<>>

\* The values assigned to `field` of the input so far, in assignment order.
Assigned(field) ==
    LET calls == SelectSeq(inputCalls, LAMBDA c : c.field = field)
    IN  [k \in 1..Len(calls) |-> calls[k].assigned]

\* The last element of `assigned`, or `initial` when there is none.
LastOr(initial, assigned) ==
    IF assigned = <<>> THEN initial ELSE assigned[Len(assigned)]

RECURSIVE Changes(_, _)
\* The elements of `assigned` that differ from the value stored when they are
\* assigned, `stored` being the value stored at the start.
Changes(stored, assigned) ==
    IF assigned = <<>>
    THEN <<>>
    ELSE IF Head(assigned) = stored
         THEN Changes(stored, Tail(assigned))
         ELSE <<Head(assigned)>> \o Changes(Head(assigned), Tail(assigned))

\* C7: the 'value changed' notifications of an input are exactly the assigned
\* values that differed from the stored value when assigned, in assignment
\* order; the stored value is the last one assigned; an assignment equal to
\* the stored value changes nothing and emits nothing.
C7_ValueNotifiesOnChangeOnly ==
    /\ [](/\ inputFired.onDidChange = Changes("", Assigned("value"))
          /\ _value = LastOr("", Assigned("value")))
    /\ [][(call'.op = "set value"
              /\ inputCalls'[Len(inputCalls')].assigned = _value)
           => UNCHANGED <<_value, _placeholder, _visible, _validateInput,
                          inputFired>>]_vars

\* "x" was assigned twice and then "y": two notifications, "x" then "y".
C7_Witness ==
    /\ Assigned("value") = <<"x", "x", "y">>
    /\ inputFired.onDidChange = <<"x", "y">>

\* C8: every assignment of placeholder, visible or validateInput stores the
\* assigned value and emits exactly one notification on that field's channel
\* (placeholder and visibility with the value, validator with no payload),
\* also when the value equals the stored one: per field, the notifications are
\* the assignments, one for one; such an assignment emits nothing on the other
\* channels, the value channel included, and leaves the other fields alone.
C8_OtherFieldsAlwaysNotify ==
    /\ [](/\ inputFired.onDidChangePlaceholder = Assigned("placeholder")
          /\ inputFired.onDidChangeVisibility = Assigned("visible")
          /\ inputFired.onDidChangeValidateInput =
                [k \in 1..Len(Assigned("validateInput")) |-> Undefined]
          /\ _placeholder = LastOr("", Assigned("placeholder"))
          /\ _visible = LastOr(TRUE, Assigned("visible"))
          /\ _validateInput = LastOr("default", Assigned("validateInput")))
    /\ [][/\ call'.op = "set placeholder"
              => /\ Len(inputFired'.onDidChangePlaceholder)
                       = Len(inputFired.onDidChangePlaceholder) + 1
                 /\ UNCHANGED <<_value, _visible, _validateInput>>
                 /\ \A e \in DOMAIN inputFired \ {"onDidChangePlaceholder"} :
                       inputFired'[e] = inputFired[e]
          /\ call'.op = "set visible"
              => /\ Len(inputFired'.onDidChangeVisibility)
                       = Len(inputFired.onDidChangeVisibility) + 1
                 /\ UNCHANGED <<_value, _placeholder, _validateInput>>
                 /\ \A e \in DOMAIN inputFired \ {"onDidChangeVisibility"} :
                       inputFired'[e] = inputFired[e]
          /\ call'.op = "set validateInput"
              => /\ Len(inputFired'.onDidChangeValidateInput)
                       = Len(inputFired.onDidChangeValidateInput) + 1
                 /\ UNCHANGED <<_value, _placeholder, _visible>>
                 /\ \A e \in DOMAIN inputFired \ {"onDidChangeValidateInput"} :
                       inputFired'[e] = inputFired[e]]_vars

\* The same placeholder was assigned twice and the visibility was assigned
\* its current value: two placeholder notifications, one visibility
\* notification, none on the value channel.
C8_Witness ==
    /\ inputFired.onDidChangePlaceholder = <<"p", "p">>
    /\ inputFired.onDidChangeVisibility = <<TRUE>>
    /\ inputFired.onDidChange = <<>>

\* C9: every assignment to selectedRepository stores the assigned value and
\* emits exactly one 'selected repository changed' notification carrying it
\* (and nothing else), also for the current selection, for undefined and for a
\* wrapper outside the sequence; the sequence and the used ids are untouched.
C9_SetterAlwaysStoresAndNotifies ==
    [][call'.op = "set selectedRepository"
        => /\ _selectedRepository' = call'.repository
           /\ Len(fired') = 1
           /\ fired'[1].channel = OnDidChangeSelectedRepositories
           /\ fired'[1].payload = call'.repository
           /\ ~result'.threw
           /\ _repositories' = _repositories
           /\ providerIds' = providerIds]_vars

\* A wrapper that is not in the sequence has just been assigned and notified,
\* while another wrapper is registered.
C9_Witness ==
    /\ call.op = "set selectedRepository"
    /\ call.repository # Undefined
    /\ call.repository \notin Range(_repositories)
    /\ _selectedRepository = call.repository
    /\ On(fired, OnDidChangeSelectedRepositories) # <<>>
    /\ _repositories # <<>>

\* C10: the array the `repositories` accessor returns holds the registry's
\* sequence as it is at the call, which is the live wrappers in registration
\* order, and is a separate array: the accessor leaves the registry alone,
\* registrations and disposals do not change an array returned earlier, and
\* a caller changing the returned array does not change the registry's
\* sequence.
C10_RepositoriesIsSnapshot ==
    /\ [](\A i, j \in 1..Len(_repositories) :
              i < j => _repositories[i] < _repositories[j])
    /\ [][/\ call'.op = "get repositories"
              => /\ arrays'[held'] = _repositories
                 /\ _repositories' = _repositories
          /\ (call'.op \in {"registerScmProvider", "dispose"}
                 /\ held # Undefined)
              => /\ held' = held
                 /\ arrays'[held'] = arrays[held]
          /\ call'.op = "modify array"
              => _repositories' = _repositories]_vars

\* The caller has just shortened the array it was given while the registry
\* still holds both wrappers.
C10_Witness ==
    /\ call.op = "modify array"
    /\ held # Undefined
    /\ Len(arrays[held]) = 1
    /\ Len(_repositories) = 2

\* C11: a registration whose provider id belongs to no wrapper of the sequence
\* succeeds, also when a wrapper with that id was registered and disposed
\* before: it creates a new wrapper, appends it and delivers 'repository
\* added' with it first; a registration is refused exactly while a wrapper
\* with that id is in the sequence.
C11_IdFreedByDispose ==
    [][call'.op = "registerScmProvider"
        => IF ProviderId(call'.provider) \in LiveIds
           THEN result' = Threw
           ELSE LET new == Len(wrappers) + 1
                    added == On(fired', OnDidAddProvider)
                IN  /\ result' = Returned(new)
                    /\ Len(wrappers') = new
                    /\ wrappers'[new].provider = call'.provider
                    /\ Len(added) = 1
                    /\ fired'[1] = added[1]
                    /\ added[1].payload = new
                    /\ added[1].repositories = Append(_repositories, new)]_vars

\* A provider has just been registered under an id that an earlier, disposed
\* wrapper had, and its wrapper is in the sequence.
C11_Witness ==
    /\ call.op = "registerScmProvider"
    /\ ~result.threw
    /\ result.value \in Range(_repositories)
    /\ \E w \in 1..(result.value - 1) :
          /\ ProviderId(wrappers[w].provider) = ProviderId(call.provider)
          /\ w \notin Range(_repositories)

\* C12: the registry's dispose() closes its three notification channels, so
\* that no later operation notifies a listener on them, and it disposes no
\* wrapper and no provider: the sequence, the used ids, the selection and the
\* wrappers are as before and no provider's dispose() is invoked.
C12_TeardownClosesChannelsOnly ==
    /\ [](disposedEmitters # {}
            => RegistryNotifications(fired) = <<>>)
    /\ [][call'.op = "ScmService.dispose"
           => /\ RegistryChannels \subseteq disposedEmitters'
              /\ ~result'.threw
              /\ fired' = <<>>
              /\ _repositories' = _repositories
              /\ providerIds' = providerIds
              /\ _selectedRepository' = _selectedRepository
              /\ wrappers' = wrappers]_vars

\* After the registry was disposed, a wrapper has just been removed by its
\* dispose() (the provider's dispose ran) and no listener was notified, while
\* another wrapper is still registered and selected.
C12_Witness ==
    /\ RegistryChannels \subseteq disposedEmitters
    /\ call.op = "dispose"
    /\ call.repository \notin Range(_repositories)
    /\ ProviderId(wrappers[call.repository].provider) \notin providerIds
    /\ On(fired, ProviderDispose) # <<>>
    /\ _selectedRepository \in Range(_repositories)

\* C13 as stated: in every successful registration into an empty registry
\* 'repository added' is delivered first, to listeners that see the new
\* wrapper in the sequence and not yet as the selection, and then the new
\* wrapper is made the selection and 'selected repository changed' is
\* delivered; both carry the new wrapper.
C13_AddedThenSelected ==
    [][(call'.op = "registerScmProvider" /\ ~result'.threw /\ _repositories = <<>>)
        => LET new == result'.value
               changed == On(fired', OnDidChangeSelectedRepositories)
           IN  /\ fired'[1].channel = OnDidAddProvider
               /\ fired'[1].payload = new
               /\ fired'[1].repositories = <<new>>
               /\ fired'[1].selectedRepository # new
               /\ Len(changed) = 1
               /\ changed[1].payload = new
               /\ fired'[Len(fired')] = changed[1]
               /\ _selectedRepository' = new]_vars

\* C13 as amended: in a successful registration into an empty registry
\* 'repository added' is delivered first, to listeners that see the new
\* wrapper in the sequence and the selection as it was before the call; then,
\* if the new wrapper is still in the sequence once the notification has been
\* delivered, it is made the selection and 'selected repository changed' is
\* delivered last, both carrying the new wrapper; if a listener removed it
\* meanwhile, the selection is not assigned and not notified.
C13_AddedThenSelectedIfStillThere ==
    [][(call'.op = "registerScmProvider" /\ ~result'.threw /\ _repositories = <<>>)
        => LET new == result'.value
               changed == On(fired', OnDidChangeSelectedRepositories)
           IN  /\ fired'[1].channel = OnDidAddProvider
               /\ fired'[1].payload = new
               /\ fired'[1].repositories = <<new>>
               /\ fired'[1].selectedRepository = _selectedRepository
               /\ _selectedRepository # new
               /\ IF new \in Range(_repositories')
                  THEN /\ Len(changed) = 1
                       /\ changed[1].payload = new
                       /\ changed[1].selectedRepository = new
                       /\ changed[1].repositories = <<new>>
                       /\ fired'[Len(fired')] = changed[1]
                       /\ _selectedRepository' = new
                  ELSE /\ changed = <<>>
                       /\ _selectedRepository' = _selectedRepository]_vars

\* A registration into a registry emptied by disposals has just delivered
\* 'repository added', seen with the stale selection, and then 'selected
\* repository changed'.
C13_Witness ==
    /\ call.op = "registerScmProvider"
    /\ ~result.threw
    /\ result.value > 1
    /\ Len(fired) = 2
    /\ fired[1].channel = OnDidAddProvider
    /\ fired[1].repositories = <<result.value>>
    /\ fired[1].selectedRepository \notin {Undefined, result.value}
    /\ fired[2].channel = OnDidChangeSelectedRepositories
    /\ _selectedRepository = result.value

DisposeCalls(present, onRemove) ==
    IF present /\ onRemove = "disposeSame" THEN 2 ELSE 1

\* C15: every dispose() of a wrapper first does the registry bookkeeping (the
\* removal and one 'repository removed' notification when the wrapper is in
\* the sequence, nothing otherwise) and then calls the provider's dispose
\* exactly once, as the last thing it does: the provider is disposed as many
\* times as dispose() was called, each time with the wrapper already out of
\* the sequence, while 'repository removed' is emitted at most once per call
\* and never again for a wrapper that has left the sequence, which never
\* comes back.
C15_BookkeepingThenProviderDispose ==
    [][/\ call'.op = "dispose"
           => LET w == call'.repository
                  present == w \in Range(_repositories)
                  removals == On(fired', OnDidRemoveProvider)
                  disposals == On(fired', ProviderDispose)
              IN  /\ Len(disposals) = DisposeCalls(present, call'.onRemove)
                  /\ \A i \in 1..Len(disposals) :
                         /\ disposals[i].payload = w
                         /\ w \notin Range(disposals[i].repositories)
                         /\ disposals[i].repositories = _repositories'
                  /\ fired'[Len(fired')].channel = ProviderDispose
                  /\ Len(removals) = IF present THEN 1 ELSE 0
                  /\ present => /\ fired'[1].channel = OnDidRemoveProvider
                                /\ fired'[1].payload = w
                  /\ ~present => /\ _repositories' = _repositories
                                 /\ providerIds' = providerIds
       /\ \A w \in 1..Len(wrappers') :
              LET removes == SelectSeq(fired', LAMBDA n :
                      n.channel = OnDidRemoveProvider /\ n.payload = w)
              IN  /\ Len(removes) <= 1
                  /\ removes # <<>> => /\ w \notin Range(_repositories')
                                       /\ DisposedDuring(fired', w)
       /\ \A w \in 1..Len(wrappers) :
              w \notin Range(_repositories) => w \notin Range(_repositories')]_vars

\* A wrapper that had left the sequence has just been disposed once more: the
\* provider's dispose was called again and nothing else happened.
C15_Witness ==
    /\ call.op = "dispose"
    /\ Len(fired) = 1
    /\ fired[1].channel = ProviderDispose
    /\ fired[1].payload = call.repository
    /\ Len(_repositories) = 2

\* C16: when a 'repository removed' listener calls dispose() on the wrapper
\* whose removal is being notified, the nested call finds the wrapper already
\* out of the sequence and its id already freed, emits no further 'repository
\* removed' and changes neither the sequence nor the used ids, and the outer
\* dispose() completes without throwing: the whole call emits exactly one
\* 'repository removed' for that wrapper, followed by the provider disposal of
\* the nested call and then by that of the outer call.
C16_ReentrantDisposeIsNoOp ==
    [][(/\ call'.op = "dispose"
        /\ call'.onRemove = "disposeSame"
        /\ call'.repository \in Range(_repositories))
        => LET w == call'.repository
               id == ProviderId(wrappers[w].provider)
           IN  /\ ~result'.threw
               /\ Len(fired') = 3
               /\ fired'[1].channel = OnDidRemoveProvider
               /\ fired'[2].channel = ProviderDispose
               /\ fired'[3].channel = ProviderDispose
               /\ \A i \in 1..3 :
                      /\ fired'[i].payload = w
                      /\ fired'[i].repositories =
                            SelectSeq(_repositories, LAMBDA x : x # w)
                      /\ fired'[i].providerIds = providerIds \ {id}
                      /\ fired'[i].selectedRepository = _selectedRepository
               /\ _repositories' = fired'[1].repositories
               /\ providerIds' = fired'[1].providerIds
               /\ _selectedRepository' = _selectedRepository]_vars

\* A listener has just disposed the wrapper it was told was removed, while
\* another wrapper stays registered.
C16_Witness ==
    /\ call.op = "dispose"
    /\ call.onRemove = "disposeSame"
    /\ Len(fired) = 3
    /\ fired[1].channel = OnDidRemoveProvider
    /\ fired[2].channel = ProviderDispose
    /\ _repositories # <<>>

\* The ids of the providers of the wrappers in the sequence `array`.
IdsOf(array) ==
    {ProviderId(wrappers[array[i]].provider) : i \in 1..Len(array)}

\* C17: in every state a caller can observe (between calls) and in every
\* state a listener or a provider's dispose observes (during a call), after
\* any registrations, refused duplicates included, and disposals, the used
\* provider ids are exactly the ids of the providers of the wrappers in the
\* repositories sequence.
C17_UsedIdsAreLiveIds ==
    /\ providerIds = IdsOf(_repositories)
    /\ \A i \in 1..Len(fired) :
           fired[i].channel \in RegistryChannels \cup {ProviderDispose}
               => fired[i].providerIds = IdsOf(fired[i].repositories)

\* A duplicate has just been refused after a wrapper with the other id was
\* registered and disposed: one id is in use, for the one wrapper left.
C17_Witness ==
    /\ call.op = "registerScmProvider"
    /\ result.threw
    /\ Len(wrappers) >= 2
    /\ Len(_repositories) = 1
    /\ providerIds = {"a"}

\* Wrapper w has left the sequence and a wrapper registered after it, with a
\* provider of the same id, is in the sequence.
Superseded(w) ==
    /\ w \notin Range(_repositories)
    /\ \E w2 \in Range(_repositories) :
           /\ w2 > w
           /\ ProviderId(wrappers[w2].provider) = ProviderId(wrappers[w].provider)

\* C18: once wrapper W1 with provider id i was disposed and a provider with
\* id i was registered as wrapper W2, a dispose() of W1 leaves the sequence as
\* it is, W2 included, leaves id i in use and emits no 'repository removed';
\* and a registration with id i made while W2 is registered, also after such
\* a dispose() of W1, is refused as a duplicate.  Removal goes by the
\* identity of the wrapper, not by the id of its provider.
C18_RemovalByWrapperIdentity ==
    [][/\ (call'.op = "dispose" /\ Superseded(call'.repository))
           => LET id == ProviderId(wrappers[call'.repository].provider)
              IN  /\ _repositories' = _repositories
                  /\ providerIds' = providerIds
                  /\ id \in providerIds'
                  /\ On(fired', OnDidRemoveProvider) = <<>>
                  /\ ~result'.threw
       /\ (/\ call'.op = "registerScmProvider"
           /\ \E w \in 1..Len(wrappers) :
                  /\ Superseded(w)
                  /\ ProviderId(wrappers[w].provider) = ProviderId(call'.provider))
           => /\ result'.threw
              /\ _repositories' = _repositories]_vars

\* A wrapper that was disposed earlier has just been disposed again while a
\* later wrapper with the same provider id is registered, and that one stays.
C18_Witness ==
    /\ call.op = "dispose"
    /\ Superseded(call.repository)
    /\ Len(fired) = 1
    /\ fired[1].channel = ProviderDispose
    /\ providerIds # {}

\* C19: when a 'repository added' listener disposes a wrapper (the new one or
\* an older one) during the notification, a selectedRepository assigned by
\* that registerScmProvider call is a wrapper that is in the repositories
\* sequence when the call returns, and the call assigns the selection only if
\* the registry was empty before the call.
C19_ListenerDisposalKeepsSelectionSound ==
    [][(/\ call'.op = "registerScmProvider"
        /\ ~result'.threw
        /\ call'.onAdd \in {"disposeNew", "disposeOldest"}
        /\ On(fired', OnDidChangeSelectedRepositories) # <<>>)
        => /\ _selectedRepository' \in Range(_repositories')
           /\ _repositories = <<>>]_vars

\* C20: the 'selected' flag of a wrapper and the registry's selectedRepository
\* are independent.  A registration (also one that selects its wrapper), an
\* assignment of selectedRepository and a disposal change no wrapper's flag
\* and emit no 'selection changed' of a wrapper, and a wrapper is created with
\* the flag false, so a freshly selected wrapper reports selected = false.
\* setSelected(b) of a wrapper stores b in that wrapper's flag only and emits
\* exactly one 'selection changed' carrying b, also when b is the stored
\* value, and changes neither selectedRepository nor the sequence, and emits
\* no 'selected repository changed'.
C20_SelectedFlagIndependent ==
    [][/\ call'.op \in {"registerScmProvider", "dispose", "set selectedRepository"}
           => /\ \A w \in 1..Len(wrappers) :
                     wrappers'[w].selected = wrappers[w].selected
              /\ \A w \in (Len(wrappers) + 1)..Len(wrappers') :
                     wrappers'[w].selected = FALSE
              /\ On(fired', OnDidChangeSelection) = <<>>
       /\ call'.op = "setSelected"
           => /\ wrappers' = [wrappers EXCEPT
                    ![call'.repository].selected = call'.selected]
              /\ fired' = <<[channel |-> OnDidChangeSelection,
                             emitter |-> call'.repository,
                             selected |-> call'.selected]>>
              /\ _selectedRepository' = _selectedRepository
              /\ _repositories' = _repositories
              /\ providerIds' = providerIds]_vars

\* setSelected(true) has just been called on a wrapper that is not the
\* selected repository, while the selected repository reports selected =
\* false.
C20_Witness ==
    /\ call.op = "setSelected"
    /\ call.selected
    /\ wrappers[call.repository].selected
    /\ _selectedRepository # Undefined
    /\ _selectedRepository # call.repository
    /\ ~wrappers[_selectedRepository].selected

====
